---------------------------- MODULE Spec2Model ----------------------------
(* Word of the Day pipeline: the generation run of main.py (acquisition,   *)
(* script synthesis, checkpoint, audio, visual generation, mux, cleanup)   *)
(* and the approval run of approve.py (approval gate, distribution,        *)
(* archive), as two processes over one shared file system.                 *)
EXTENDS Integers, Sequences, FiniteSets, TLC

(***************************************************************************)
(* Bounds of the model.                                                    *)
(***************************************************************************)
MaxGenRuns == 2
MaxApproveRuns == 2

(***************************************************************************)
(* Values that stand for "nothing there".                                  *)
(***************************************************************************)
Absent == [kind |-> "absent"]
NoValue == [kind |-> "none"]

(***************************************************************************)
(* Strings are sequences of one-character strings; str.strip() and         *)
(* str.lower() are computed on them.                                       *)
(***************************************************************************)
RECURSIVE LStrip(_)
LStrip(s) == IF s # <<>> /\ Head(s) = " " THEN LStrip(Tail(s)) ELSE s

RECURSIVE RStrip(_)
RStrip(s) ==
    IF s # <<>> /\ s[Len(s)] = " " THEN RStrip(SubSeq(s, 1, Len(s) - 1)) ELSE s

Strip(s) == RStrip(LStrip(s))

LowerChar(c) ==
    CASE c = "A" -> "a"
      [] c = "Y" -> "y"
      [] c = "N" -> "n"
      [] OTHER -> c

Lower(s) == [i \in 1..Len(s) |-> LowerChar(s[i])]

(***************************************************************************)
(* Source Acquirer: main.py fetch_word_of_the_day, load_fallback,          *)
(* send_alert.                                                             *)
(***************************************************************************)
RawWords == { <<>>, <<" ", " ">>, <<" ", "A", "a", " ">> }

\* What the source page holds when the scraper visits it.
Pages ==
    [ nav : BOOLEAN,                        \* goto / wait returned
      json : {"absent", "malformed", "ok"}, \* script#json-current-wotd
      dom_el : BOOLEAN,                     \* a.wotd-entry-headword
      headword : RawWords,                  \* the word as the page prints it
      hasDef : BOOLEAN, hasExample : BOOLEAN, hasBody : BOOLEAN ]

\* local_fallback.json as found on disk.
FallbackWord == <<"f", "b">>
FallbackEntry ==
    [ word |-> FallbackWord, phonetic |-> "ph",
      definitions |-> <<"fb1", "fb2", "fb3">> ]
FallbackFiles == { "unreadable", "empty", "ok" }

\* Mail configuration and SMTP behaviour seen by send_alert.
MailEnvs == { "no_creds", "smtp_fails", "smtp_ok" }

\* The filler appended while fewer than three definitions were scraped.
Filler == "filler"

RECURSIVE PadDefinitions(_)
PadDefinitions(defs) ==
    IF Len(defs) < 3 THEN PadDefinitions(Append(defs, Filler)) ELSE defs

Truncate3(defs) == SubSeq(defs, 1, 3)

ScrapedDefinitions(page) ==
    (IF page.hasDef THEN <<"definition">> ELSE <<>>)
    \o (IF page.hasExample THEN <<"example">> ELSE <<>>)
    \o (IF page.hasBody THEN <<"body">> ELSE <<>>)

\* send_alert with the SMTP error left to propagate.
send_alert_propagates(mail) ==
    [ raised |-> (mail = "smtp_fails"),
      smtp_tried |-> (mail # "no_creds"),
      delivered |-> (mail = "smtp_ok") ]

\* send_alert: skips without credentials, swallows every SMTP error.
\* Returns what the caller sees and whether an SMTP delivery was tried.
send_alert(mail) ==
    [ raised |-> FALSE,
      smtp_tried |-> (mail # "no_creds"),
      delivered |-> (mail = "smtp_ok") ]

\* load_fallback: random.choice over the entries of the file.
load_fallback(fb) ==
    IF fb = "ok"
    THEN [ raised |-> FALSE, entry |-> FallbackEntry ]
    ELSE [ raised |-> TRUE, entry |-> NoValue ]

\* Strategy 1: the embedded JSON document.  No check of the word or of
\* the number of definitions precedes the padding.
StrategyJson(page) ==
    IF page.json = "malformed"
    THEN [ raised |-> TRUE, record |-> NoValue ]
    ELSE [ raised |-> FALSE,
           record |-> [ word |-> Lower(Strip(page.headword)),
                        phonetic |-> "ph",
                        definitions |->
                            Truncate3(PadDefinitions(ScrapedDefinitions(page))) ] ]

\* Strategy 2: the DOM selectors.
StrategyDomChecked(word, defs) == word = <<>> \/ Len(defs) < 1
StrategyDom(page) ==
    IF ~page.dom_el
    THEN [ raised |-> TRUE, record |-> NoValue ]
    ELSE LET word == Lower(Strip(page.headword))
             defs == ScrapedDefinitions(page)
         IN  IF StrategyDomChecked(word, defs)
             THEN [ raised |-> TRUE, record |-> NoValue ]
             ELSE [ raised |-> FALSE,
                    record |-> [ word |-> word, phonetic |-> "ph",
                                 definitions |->
                                     Truncate3(PadDefinitions(defs)) ] ]

\* The primary path: navigation, then strategy 1 if its element is there,
\* else strategy 2.
PrimaryPath(page) ==
    IF ~page.nav
    THEN [ raised |-> TRUE, record |-> NoValue, via |-> "none" ]
    ELSE IF page.json # "absent"
         THEN [ raised |-> StrategyJson(page).raised,
                record |-> StrategyJson(page).record, via |-> "json" ]
         ELSE [ raised |-> StrategyDom(page).raised,
                record |-> StrategyDom(page).record, via |-> "dom" ]

\* fetch_word_of_the_day: the primary path, and on any exception one call
\* of send_alert followed by load_fallback.
fetch_word_of_the_day(page, mail, fb) ==
    LET p == PrimaryPath(page)
    IN  IF ~p.raised
        THEN [ raised |-> FALSE, record |-> p.record, via |-> p.via,
               primary_raised |-> FALSE, alert_calls |-> 0,
               smtp_tried |-> FALSE ]
        ELSE LET a == send_alert(mail)
                 f == load_fallback(fb)
             IN  IF a.raised
                 THEN [ raised |-> TRUE, record |-> NoValue, via |-> "none",
                        primary_raised |-> TRUE, alert_calls |-> 1,
                        smtp_tried |-> a.smtp_tried ]
                 ELSE [ raised |-> f.raised, record |-> f.entry,
                        via |-> IF f.raised THEN "none" ELSE "fallback",
                        primary_raised |-> TRUE, alert_calls |-> 1,
                        smtp_tried |-> a.smtp_tried ]

(***************************************************************************)
(* Script Synthesizer: main.py generate_script.                            *)
(***************************************************************************)
\* A JSON value of the backend's document: a string, a list, or a value
\* of another type (also: the key is missing).
Str(v) == [ t |-> "str", v |-> v, len |-> Len(v) ]
StrOfLen(n) == [ t |-> "str", v |-> <<>>, len |-> n ]
List(n) == [ t |-> "list", v |-> <<>>, len |-> n ]
Other == [ t |-> "other", v |-> <<>>, len |-> 0 ]

NarrationLimit == 240
DefinitionsCount == 3
OnScreenCount == 2

\* A colour is "#" and three two-digit channels.
DarkHex == <<"#", "1a", "1a", "2e">>
BrightHex == <<"#", "ff", "ff", "ff">>
NoPrefixHex == <<"1a", "1a", "2e">>

\* The word the backend writes into its document is its own choice.
BackendWord == <<"a", "a">>

GoodDoc ==
    [ word |-> Str(BackendWord), definitions |-> List(3),
      narration |-> StrOfLen(240), on_screen_text |-> List(2),
      background_hex |-> Str(DarkHex) ]

\* The documents the backend may answer with.
BackendDocs ==
    LET g == GoodDoc
    IN  { g,
          [g EXCEPT !.word = Other],
          [g EXCEPT !.definitions = List(2)],
          [g EXCEPT !.definitions = Other],
          [g EXCEPT !.narration = StrOfLen(241)],
          [g EXCEPT !.narration = Other],
          [g EXCEPT !.on_screen_text = List(1)],
          [g EXCEPT !.on_screen_text = List(3)],
          [g EXCEPT !.background_hex = Str(NoPrefixHex)],
          [g EXCEPT !.background_hex = Str(BrightHex)],
          [g EXCEPT !.background_hex = Other] }

\* The raw text on stdout, as tokens: a fence line, a line break, the JSON
\* text of the document, or text that is not JSON.
Fence == "FENCE"
NL == "LF"
RawTexts ==
    { <<"json">>,
      <<NL, "json", NL>>,
      <<Fence, NL, "json", NL, Fence>>,
      <<Fence, NL, "json">>,
      <<"json", NL, Fence>>,
      <<Fence>>,
      <<"garbage">> }

BackendOutputs ==
    [ returncode : {0, 1}, stdout : RawTexts, doc : BackendDocs ]

RECURSIVE LStripNL(_)
LStripNL(s) == IF s # <<>> /\ Head(s) = NL THEN LStripNL(Tail(s)) ELSE s

RECURSIVE RStripNL(_)
RStripNL(s) ==
    IF s # <<>> /\ s[Len(s)] = NL
    THEN RStripNL(SubSeq(s, 1, Len(s) - 1)) ELSE s

StripNL(s) == RStripNL(LStripNL(s))

\* raw.split("\n", 1)[1]: the text after the first line break; none when
\* there is no line break (IndexError).
HasNL(s) == \E i \in 1..Len(s) : s[i] = NL
FirstNL(s) == CHOOSE i \in 1..Len(s) : s[i] = NL /\ \A j \in 1..(i - 1) : s[j] # NL
AfterFirstLine(s) == SubSeq(s, FirstNL(s) + 1, Len(s))

\* raw[: raw.rfind(fence)]
LastFence(s) ==
    CHOOSE i \in 1..Len(s) : s[i] = Fence /\ \A j \in (i + 1)..Len(s) : s[j] # Fence
BeforeLastFence(s) == SubSeq(s, 1, LastFence(s) - 1)

\* Lines 222-228: strip, drop the fences.  raised: no second line.
StripFences(stdout) ==
    LET raw == StripNL(stdout)
    IN  IF raw # <<>> /\ Head(raw) = Fence
        THEN IF ~HasNL(raw)
             THEN [ raised |-> TRUE, raw |-> <<>> ]
             ELSE LET r1 == AfterFirstLine(raw)
                      r2 == IF r1 # <<>> /\ r1[Len(r1)] = Fence
                            THEN BeforeLastFence(r1) ELSE r1
                  IN  [ raised |-> FALSE, raw |-> StripNL(r2) ]
        ELSE [ raised |-> FALSE, raw |-> raw ]

\* json.loads(raw) succeeds on exactly the JSON text.
JsonLoads(raw) == raw = <<"json">>

\* Lines 233-237: the asserts.
ValidWord(d) == d.word.t = "str"
ValidDefinitions(d) ==
    d.definitions.t = "list" /\ d.definitions.len = DefinitionsCount
ValidNarration(d) ==
    d.narration.t = "str" /\ d.narration.len <= NarrationLimit
ValidOnScreen(d) ==
    d.on_screen_text.t = "list" /\ d.on_screen_text.len = OnScreenCount
ValidBackground(d) ==
    /\ d.background_hex.t = "str"
    /\ d.background_hex.len > 0
    /\ Head(d.background_hex.v) = "#"

Validate(d) ==
    /\ ValidWord(d)
    /\ ValidDefinitions(d)
    /\ ValidNarration(d)
    /\ ValidOnScreen(d)
    /\ ValidBackground(d)

\* generate_script without the asserts.
generate_script_unvalidated(out) ==
    IF out.returncode # 0
    THEN [ raised |-> TRUE, parsed |-> NoValue ]
    ELSE LET f == StripFences(out.stdout)
         IN  IF f.raised \/ ~JsonLoads(f.raw)
             THEN [ raised |-> TRUE, parsed |-> NoValue ]
             ELSE [ raised |-> FALSE, parsed |-> out.doc ]

\* generate_script: the parsed document, or an exception.
generate_script(out) ==
    IF out.returncode # 0
    THEN [ raised |-> TRUE, parsed |-> NoValue ]
    ELSE LET f == StripFences(out.stdout)
         IN  IF f.raised \/ ~JsonLoads(f.raw) \/ ~Validate(out.doc)
             THEN [ raised |-> TRUE, parsed |-> NoValue ]
             ELSE [ raised |-> FALSE, parsed |-> out.doc ]

(***************************************************************************)
(* Cleanup Guard: main.py cleanup.                                         *)
(***************************************************************************)
CleanupThreshold == 1048576

\* cleanup that skips an export of exactly the threshold size too.
cleanup_strict(exp) ==
    IF exp.kind # "video"
    THEN FALSE
    ELSE IF exp.size <= CleanupThreshold THEN FALSE ELSE TRUE

\* TRUE when the guard removes temp/: the export is a file of at least the
\* threshold size.
cleanup(exp) ==
    IF exp.kind # "video"
    THEN FALSE
    ELSE IF exp.size < CleanupThreshold THEN FALSE ELSE TRUE

(***************************************************************************)
(* approve.py: the approval gate's prompt, the caption, the platform       *)
(* adapters, the aggregate.                                                *)
(***************************************************************************)
\* Lines typed at the prompt.
GateInputs ==
    { <<"y">>, <<" ", "Y", " ">>, <<"n">>, <<"N">>, <<"y", "y">>, <<>> }

\* Line 64: input(...).strip().lower()
Choice(line) == Lower(Strip(line))

\* build_caption: the word capitalised, the first on-screen phrase.
build_caption(data) ==
    [ word |-> data.doc.word.v,
      hook |-> IF data.doc.on_screen_text.len > 0 THEN "first" ELSE "",
      doc |-> data.run ]

\* A credential in .env: unset, the template's "your_..." value, or real.
Credentials == { "unset", "placeholder", "real" }

\* What the TikTok API and the file system do on a live attempt.
TikTokOutcomes ==
    { "stat_fails", "init_network_error", "expired", "init_status",
      "init_incomplete", "unreadable_file", "upload_network_error",
      "upload_status", "ok" }

\* upload_tiktok: "skip" (no attempt), "false", "true", or "raised" when
\* an exception other than requests' RequestException leaves the function.
upload_tiktok(token, outcome) ==
    IF token # "real"
    THEN "skip"
    ELSE CASE outcome = "ok" -> "true"
           [] outcome \in { "stat_fails", "init_incomplete",
                            "unreadable_file" } -> "raised"
           [] OTHER -> "false"

\* What instagrapi does on a live attempt.
InstagramOutcomes ==
    { "import_error", "auth_error", "upload_error", "ok" }

\* upload_instagram: only the username is tested for the template value.
upload_instagram(username, password, outcome) ==
    IF username = "unset" \/ password = "unset" \/ username = "placeholder"
    THEN "skip"
    ELSE IF outcome = "ok" THEN "true" ELSE "false"

\* The boolean an adapter returns to distribute.
Returned(r) == IF r = "true" THEN "True" ELSE "False"

\* distribute that wants every upload to succeed.
distribute_all(results) ==
    results.tiktok = "True" /\ results.instagram = "True"

\* distribute, lines 196-200: any(results.values())
distribute(results) ==
    results.tiktok = "True" \/ results.instagram = "True"

\* main that archives whatever distribute returned.
AfterDistribute_archives(success) == "archive"

\* main, lines 264-270: exit 1 when nothing succeeded, else archive.
AfterDistribute(success) ==
    IF success = "True" THEN "archive" ELSE "failed"

(***************************************************************************)
(* State.                                                                  *)
(***************************************************************************)
VARIABLES
    bridge,       \* data_bridge.json: Absent or the persisted document
    temp_dir,     \* temp/ exists
    audio,        \* temp/audio.mp3
    clip,         \* temp/comfyui_raw.mp4
    export,       \* exports/word_of_the_day.mp4
    archive,      \* permanent_archive/<date>/word_of_the_day.mp4, by date
    handover,     \* HANDOVER.md: the entries appended, in order
    g_pc,         \* main.py: position of the generation run
    g_test,       \* main.py: args.test
    g_run,        \* number of generation runs started
    g_word_data,  \* main.py main: word_data
    g_script,     \* main.py main: script
    g_calls,      \* the steps this generation run has started, in order
    a_pc,         \* approve.py: position of the approval run
    a_run,        \* number of approval runs started
    a_video,      \* the export as it was when opened for review
    a_input,      \* the last line read by input()
    a_caption,    \* approve.py main: caption
    a_results,    \* distribute: results
    a_success,    \* approve.py main: success
    a_calls,      \* the steps this approval run has taken, in order
    fn_in,        \* the arguments of the last call of a function on its own
    fn_out        \* and what it returned

fs_vars == <<bridge, temp_dir, audio, clip, export>>
store_vars == <<archive, handover>>
gen_vars == <<g_pc, g_test, g_run, g_word_data, g_script, g_calls>>
app_vars == <<a_pc, a_run, a_video, a_input, a_caption,
              a_results, a_success, a_calls>>
fn_vars == <<fn_in, fn_out>>
vars == <<fs_vars, store_vars, gen_vars, app_vars, fn_vars>>

\* What a generation run leaves alone outside the files it works on.
gen_frame == <<store_vars, app_vars, fn_vars>>
\* What an approval run leaves alone.
app_frame == <<gen_vars, fn_vars>>

\* The calendar dates datetime.now() may give.
Dates == { "day1", "day2" }

NoResults == [ tiktok |-> "unset", instagram |-> "unset" ]

\* The sizes a finished export may have: below and at the threshold.
MuxSizes == { 500000, 1048576 }

TtsOutcomes == { "no_key", "unreachable_eager", "unreachable_lazy",
                 "zero_bytes", "ok" }
RenderOutcomes == { "no_workflow", "submit_fails", "job_error", "timeout",
                    "download_fails", "ok" }
MuxOutcomes == { "fails_early", "fails_late", "ok" }

\* Everything fetch_word_of_the_day can return or raise.
FetchResults ==
    { fetch_word_of_the_day(page, mail, fb) :
        page \in Pages, mail \in MailEnvs, fb \in FallbackFiles }

\* Everything generate_script can return or raise.
ScriptResults == { generate_script(out) : out \in BackendOutputs }

Init ==
    /\ bridge = Absent
    /\ temp_dir = FALSE
    /\ audio = Absent
    /\ clip = Absent
    /\ export = Absent
    /\ archive = [ d \in Dates |-> Absent ]
    /\ handover = <<>>
    /\ g_pc = "idle"
    /\ g_test = FALSE
    /\ g_run = 0
    /\ g_word_data = NoValue
    /\ g_script = NoValue
    /\ g_calls = <<>>
    /\ a_pc = "idle"
    /\ a_run = 0
    /\ a_video = Absent
    /\ a_input = <<>>
    /\ a_caption = NoValue
    /\ a_results = NoResults
    /\ a_success = "unset"
    /\ a_calls = <<>>
    /\ fn_in = NoValue
    /\ fn_out = NoValue

(***************************************************************************)
(* The generation run: main.py main.                                       *)
(***************************************************************************)
\* The process has ended, with exit status 0 or with a traceback.
GenEnded == g_pc \in { "done", "aborted" }
AppEnded == a_pc \in { "done", "rejected", "failed", "crashed" }

\* A process that has ended is gone at once (GenExit, ApproveExit): the
\* other process takes its next step after that.
GenAt(pc) == g_pc = pc /\ ~AppEnded
AppAt(pc) == a_pc = pc /\ ~GenEnded

\* A run that goes on to the cleanup after a failed step.
GenAbort_continues(step) ==
    /\ g_pc' = "cleanup"
    /\ g_calls' = Append(g_calls, step)

\* An uncaught exception ends the run where it is.
GenAbort(step) ==
    /\ g_pc' = "aborted"
    /\ g_calls' = Append(g_calls, step)

\* A run that leaves out the audio stage.
GenGoto_skips(step, pc) ==
    /\ g_pc' = IF pc = "audio" THEN "render" ELSE pc
    /\ g_calls' = Append(g_calls, step)

\* A step that returned: the run moves on.
GenGoto(step, pc) ==
    /\ g_pc' = pc
    /\ g_calls' = Append(g_calls, step)

\* A main that takes the stages of a normal run whatever --test says.
GenStart_ignores_test ==
    /\ GenAt("idle")
    /\ g_run < MaxGenRuns
    /\ g_run' = g_run + 1
    /\ g_test' \in BOOLEAN
    /\ g_pc' = "fetch"
    /\ g_word_data' = NoValue
    /\ g_script' = NoValue
    /\ g_calls' = <<>>
    /\ UNCHANGED <<fs_vars, gen_frame>>

\* python main.py [--test]
GenStart ==
    /\ GenAt("idle")
    /\ g_run < MaxGenRuns
    /\ g_run' = g_run + 1
    /\ \E test \in BOOLEAN :
         /\ g_test' = test
         /\ g_pc' = IF test THEN "load" ELSE "fetch"
    /\ g_word_data' = NoValue
    /\ g_script' = NoValue
    /\ g_calls' = <<>>
    /\ UNCHANGED <<fs_vars, gen_frame>>

\* Lines 450-455: test mode needs the checkpoint and loads it.
GenLoad ==
    /\ GenAt("load")
    /\ IF bridge = Absent
       THEN GenAbort("load") /\ UNCHANGED g_script
       ELSE GenGoto("load", "check_audio") /\ g_script' = bridge.doc
    /\ UNCHANGED <<fs_vars, g_test, g_run, g_word_data, gen_frame>>

\* Test mode that does not look for the cached audio.
GenCheckAudio_unchecked ==
    /\ GenAt("check_audio")
    /\ GenGoto("check_audio", "render")
    /\ UNCHANGED <<fs_vars, g_test, g_run, g_word_data, g_script, gen_frame>>

\* Lines 472-474: test mode needs the cached audio.
GenCheckAudio ==
    /\ GenAt("check_audio")
    /\ IF audio = Absent
       THEN GenAbort("check_audio")
       ELSE GenGoto("check_audio", "render")
    /\ UNCHANGED <<fs_vars, g_test, g_run, g_word_data, g_script, gen_frame>>

\* Line 459: word_data = fetch_word_of_the_day().  The backend's answer is
\* not a function of the record, and main reads only its phonetic again
\* (line 463), so that is what is kept of it.
GenFetch ==
    /\ GenAt("fetch")
    /\ \E r \in FetchResults :
         IF r.raised
         THEN GenAbort("fetch") /\ UNCHANGED g_word_data
         ELSE /\ GenGoto("fetch", "script")
              /\ g_word_data' = [ phonetic |-> r.record.phonetic ]
    /\ UNCHANGED <<fs_vars, g_test, g_run, g_script, gen_frame>>

\* Line 462: script = generate_script(word_data)
GenScript ==
    /\ GenAt("script")
    /\ \E r \in ScriptResults :
         IF r.raised
         THEN GenAbort("script") /\ UNCHANGED g_script
         ELSE GenGoto("script", "write") /\ g_script' = r.parsed
    /\ UNCHANGED <<fs_vars, g_test, g_run, g_word_data, gen_frame>>

\* Lines 463-466: the phonetic is added and the checkpoint written whole.
\* word_data and script are not read again.
GenWrite ==
    /\ GenAt("write")
    /\ bridge' = [ kind |-> "doc", doc |-> g_script,
                   phonetic |-> g_word_data.phonetic, run |-> g_run ]
    /\ GenGoto("write", "audio")
    /\ g_word_data' = NoValue
    /\ g_script' = NoValue
    /\ UNCHANGED <<temp_dir, audio, clip, export, g_test, g_run, gen_frame>>

\* Line 477: generate_audio().  The key is checked first; the checkpoint
\* is read; temp/ is made; the stream is written to temp/audio.mp3 as it
\* arrives, so a stream that fails after the file was opened leaves an
\* empty file.  The size of the file is printed, not checked.
GenAudio ==
    /\ GenAt("audio")
    /\ \E tts \in TtsOutcomes :
         IF tts = "no_key" \/ bridge = Absent
         THEN GenAbort("audio") /\ UNCHANGED <<temp_dir, audio>>
         ELSE /\ temp_dir' = TRUE
              /\ CASE tts = "unreachable_eager" ->
                        GenAbort("audio") /\ UNCHANGED audio
                   [] tts = "unreachable_lazy" ->
                        /\ GenAbort("audio")
                        /\ audio' = [ kind |-> "audio", empty |-> TRUE ]
                   [] OTHER ->
                        /\ GenGoto("audio", "render")
                        /\ audio' = [ kind |-> "audio",
                                      empty |-> (tts = "zero_bytes") ]
    /\ UNCHANGED <<bridge, clip, export,
                   g_test, g_run, g_word_data, g_script, gen_frame>>

\* Line 480: render_comfyui().  Every failure before the download leaves
\* the files as they were; the download writes temp/comfyui_raw.mp4.
GenRender ==
    /\ GenAt("render")
    /\ \E r \in RenderOutcomes :
         IF r \in { "no_workflow", "submit_fails", "job_error", "timeout" }
              \/ bridge = Absent
         THEN GenAbort("render") /\ UNCHANGED <<temp_dir, clip>>
         ELSE /\ temp_dir' = TRUE
              /\ clip' = [ kind |-> "clip", doc |-> bridge.run,
                           whole |-> (r = "ok") ]
              /\ IF r = "ok"
                 THEN GenGoto("render", "mux")
                 ELSE GenAbort("render")
    /\ UNCHANGED <<bridge, audio, export,
                   g_test, g_run, g_word_data, g_script, gen_frame>>

\* Line 483: merge_video().  ffmpeg -y overwrites the export; it needs
\* both inputs readable.
GenMux ==
    /\ GenAt("mux")
    /\ \E m \in MuxOutcomes, size \in MuxSizes :
         LET inputs_ok == /\ clip.kind = "clip" /\ clip.whole
                          /\ audio.kind = "audio" /\ ~audio.empty
         IN  IF m = "fails_early" \/ ~inputs_ok
             THEN GenAbort("mux") /\ UNCHANGED export
             ELSE IF m = "fails_late"
                  THEN /\ GenAbort("mux")
                       /\ export' = [ kind |-> "video", run |-> g_run,
                                      doc |-> clip.doc, size |-> 0 ]
                  ELSE /\ GenGoto("mux", "cleanup")
                       /\ export' = [ kind |-> "video", run |-> g_run,
                                      doc |-> clip.doc, size |-> size ]
    /\ UNCHANGED <<bridge, temp_dir, audio, clip,
                   g_test, g_run, g_word_data, g_script, gen_frame>>

\* Line 486: cleanup(), then the run is complete.
GenCleanup ==
    /\ GenAt("cleanup")
    /\ IF cleanup(export)
       THEN temp_dir' = FALSE /\ audio' = Absent /\ clip' = Absent
       ELSE UNCHANGED <<temp_dir, audio, clip>>
    /\ GenGoto("cleanup", "done")
    /\ UNCHANGED <<bridge, export,
                   g_test, g_run, g_word_data, g_script, gen_frame>>

\* The process is gone, and its variables with it.
GenExit ==
    /\ GenEnded
    /\ g_pc' = "idle"
    /\ g_test' = FALSE
    /\ g_word_data' = NoValue
    /\ g_script' = NoValue
    /\ g_calls' = <<>>
    /\ UNCHANGED <<fs_vars, g_run, gen_frame>>

(***************************************************************************)
(* The approval run: approve.py main.                                      *)
(***************************************************************************)

\* python approve.py: approval_gate() finds the latest export and opens it.
ApproveStart ==
    /\ AppAt("idle")
    /\ a_run < MaxApproveRuns
    /\ a_run' = a_run + 1
    /\ a_input' = <<>>
    /\ a_caption' = NoValue
    /\ a_results' = NoResults
    /\ a_success' = "unset"
    /\ IF export = Absent
       THEN /\ a_pc' = "crashed"
            /\ a_video' = Absent
            /\ a_calls' = <<"find">>
       ELSE /\ a_pc' = "prompt"
            /\ a_video' = export
            /\ a_calls' = <<"find", "open">>
    /\ UNCHANGED <<fs_vars, store_vars, app_frame>>

\* A gate that takes every line but n for a yes.
approval_gate_lenient(line) ==
    IF Choice(line) = <<"n">> THEN "rejected" ELSE "approved"

\* What the gate does with one line read at the prompt (lines 64-74).
approval_gate(line) ==
    IF Choice(line) = <<"y">>
    THEN "approved"
    ELSE IF Choice(line) = <<"n">> THEN "rejected" ELSE "again"

ApprovePrompt ==
    /\ AppAt("prompt")
    /\ \E line \in GateInputs :
         /\ a_input' = line
         /\ CASE approval_gate(line) = "approved" ->
                   /\ a_pc' = "caption"
                   /\ UNCHANGED handover
              [] approval_gate(line) = "rejected" ->
                   /\ handover' = Append(handover,
                          [ kind |-> "rejected" ])
                   /\ a_pc' = "rejected"
              [] OTHER ->
                   UNCHANGED <<handover, a_pc>>
    /\ UNCHANGED <<fs_vars, archive, a_run, a_video, a_caption, a_results,
                   a_success, a_calls, app_frame>>

\* Lines 257-258: the caption is built from the checkpoint as it is now.
ApproveCaption ==
    /\ AppAt("caption")
    /\ IF bridge = Absent
       THEN a_pc' = "crashed" /\ UNCHANGED a_caption
       ELSE a_pc' = "tiktok" /\ a_caption' = build_caption(bridge)
    /\ a_calls' = Append(a_calls, "caption")
    /\ a_input' = <<>>            \* approval_gate has returned
    /\ UNCHANGED <<fs_vars, store_vars, a_run, a_video,
                   a_results, a_success, app_frame>>

\* Line 191: results["tiktok"] = upload_tiktok(video_path, caption)
ApproveTikTok ==
    /\ AppAt("tiktok")
    /\ \E token \in Credentials, o \in TikTokOutcomes :
         LET r == IF export = Absent /\ token = "real"
                  THEN "raised" ELSE upload_tiktok(token, o)
         IN  IF r = "raised"
             THEN a_pc' = "crashed" /\ UNCHANGED a_results
             ELSE /\ a_pc' = "instagram"
                  /\ a_results' = [a_results EXCEPT !.tiktok = Returned(r)]
    /\ a_calls' = Append(a_calls, "tiktok")
    /\ UNCHANGED <<fs_vars, store_vars, a_run, a_video, a_input,
                   a_caption, a_success, app_frame>>

\* Lines 192-200 and 262-267: the second upload, the aggregate, and the
\* exit when nothing succeeded.
ApproveInstagram ==
    /\ AppAt("instagram")
    /\ \E username \in Credentials, password \in Credentials,
          o \in InstagramOutcomes :
         LET r == upload_instagram(username, password, o)
             results == [a_results EXCEPT !.instagram = Returned(r)]
         IN  /\ a_results' = results
             /\ a_success' = IF distribute(results) THEN "True" ELSE "False"
    /\ a_pc' = AfterDistribute(a_success')
    /\ a_calls' = Append(a_calls, "instagram")
    /\ UNCHANGED <<fs_vars, store_vars, a_run, a_video, a_input,
                   a_caption, app_frame>>

\* archive_video that copies the export and leaves it where it was.
ApproveArchive_copies ==
    /\ AppAt("archive")
    /\ IF export = Absent
       THEN a_pc' = "crashed" /\ UNCHANGED archive
       ELSE /\ \E date \in Dates : archive' = [archive EXCEPT ![date] = export]
            /\ a_pc' = "cleanup_temp"
    /\ a_calls' = Append(a_calls, "archive")
    /\ a_results' = NoResults
    /\ UNCHANGED <<fs_vars, handover, a_run, a_video,
                   a_input, a_caption, a_success, app_frame>>

\* archive_video: the export is moved under the directory of the date
\* datetime.now() gives, replacing a file of the same name there.
ApproveArchive ==
    /\ AppAt("archive")
    /\ IF export = Absent
       THEN a_pc' = "crashed" /\ UNCHANGED <<export, archive>>
       ELSE /\ \E date \in Dates : archive' = [archive EXCEPT ![date] = export]
            /\ export' = Absent
            /\ a_pc' = "cleanup_temp"
    /\ a_calls' = Append(a_calls, "archive")
    /\ a_results' = NoResults     \* distribute has returned
    /\ UNCHANGED <<bridge, temp_dir, audio, clip, handover, a_run, a_video,
                   a_input, a_caption, a_success, app_frame>>

\* cleanup_temp: temp/ is removed when it is there.
ApproveCleanupTemp ==
    /\ AppAt("cleanup_temp")
    /\ temp_dir' = FALSE
    /\ audio' = Absent
    /\ clip' = Absent
    /\ a_pc' = "finalize"
    /\ a_calls' = Append(a_calls, "cleanup_temp")
    /\ UNCHANGED <<bridge, export, store_vars, a_run, a_video, a_input,
                   a_caption, a_results, a_success, app_frame>>

\* finalize_handover: the completion entry.
ApproveFinalize ==
    /\ AppAt("finalize")
    /\ handover' = Append(handover, [ kind |-> "completed" ])
    /\ a_pc' = "done"
    /\ a_calls' = Append(a_calls, "finalize")
    /\ UNCHANGED <<fs_vars, archive, a_run, a_video, a_input,
                   a_caption, a_results, a_success, app_frame>>

\* The process is gone, and its variables with it.
ApproveExit ==
    /\ AppEnded
    /\ a_pc' = "idle"
    /\ a_video' = Absent
    /\ a_input' = <<>>
    /\ a_caption' = NoValue
    /\ a_results' = NoResults
    /\ a_success' = "unset"
    /\ a_calls' = <<>>
    /\ UNCHANGED <<fs_vars, store_vars, a_run, app_frame>>

Next ==
    \/ GenStart
    \/ GenLoad
    \/ GenCheckAudio
    \/ GenFetch
    \/ GenScript
    \/ GenWrite
    \/ GenAudio
    \/ GenRender
    \/ GenMux
    \/ GenCleanup
    \/ GenExit
    \/ ApproveStart
    \/ ApprovePrompt
    \/ ApproveCaption
    \/ ApproveTikTok
    \/ ApproveInstagram
    \/ ApproveArchive
    \/ ApproveCleanupTemp
    \/ ApproveFinalize
    \/ ApproveExit

Spec == Init /\ [][Next]_vars

(***************************************************************************)
(* fetch_word_of_the_day on its own: called on every page, mail            *)
(* configuration and fallback file.                                        *)
(***************************************************************************)
FetchCall ==
    /\ fn_in = NoValue
    /\ \E page \in Pages, mail \in MailEnvs, fb \in FallbackFiles :
         /\ fn_in' = [ fn |-> "fetch_word_of_the_day",
                       page |-> page, mail |-> mail, fb |-> fb ]
         /\ fn_out' = fetch_word_of_the_day(page, mail, fb)
    /\ UNCHANGED <<fs_vars, store_vars, gen_vars, app_vars>>

SpecFetch == Init /\ [][FetchCall]_vars

Fetched == fn_in # NoValue /\ fn_in.fn = "fetch_word_of_the_day"

(***************************************************************************)
(* Properties.                                                             *)
(***************************************************************************)
\* "value < #444444" of the prompt: the brightness threshold of a channel.
DarkThreshold == 68

HexByte(t) ==
    CASE t = "1a" -> 26
      [] t = "2e" -> 46
      [] t = "ff" -> 255
      [] OTHER -> 255

\* The darkness predicate: "#" and three channels, each below the
\* threshold.
IsDark(hex) ==
    /\ Len(hex) = 4
    /\ hex[1] = "#"
    /\ \A i \in 2..4 : HexByte(hex[i]) < DarkThreshold

\* C1: the checkpoint file never holds a document unless its narration has
\* at most 240 characters, it has 2 on-screen texts and 3 definitions, and
\* its background colour is dark.  The code checks the colour's "#" only.
C1_PersistedOnlyIfValidAndDark ==
    bridge.kind = "doc" =>
        /\ bridge.doc.narration.t = "str"
        /\ bridge.doc.narration.len <= 240
        /\ bridge.doc.on_screen_text.len = 2
        /\ bridge.doc.definitions.len = 3
        /\ bridge.doc.background_hex.t = "str"
        /\ IsDark(bridge.doc.background_hex.v)

\* C2: every record fetch_word_of_the_day returns has exactly 3
\* definitions and a non-empty term.  Strategy 1 returns the stripped
\* headword unchecked.
C2_RecordHasThreeDefinitionsAndTerm ==
    (Fetched /\ ~fn_out.raised) =>
        /\ Len(fn_out.record.definitions) = 3
        /\ fn_out.record.word # <<>>

\* The primary path throws: the navigation fails, the embedded JSON is
\* malformed, or without embedded JSON the heading element is missing, the
\* word is blank or no definition was found.
PrimaryThrows(page) ==
    \/ ~page.nav
    \/ page.json = "malformed"
    \/ /\ page.json = "absent"
       /\ \/ ~page.dom_el
          \/ \A i \in 1..Len(page.headword) : page.headword[i] = " "
          \/ ~(page.hasDef \/ page.hasExample \/ page.hasBody)

\* C8: when the primary path throws, send_alert is called exactly once,
\* whatever becomes of the mail, and the record returned is the entry of
\* the fallback file; a readable fallback file is always returned, also
\* when the mail cannot be delivered.
C8_FallbackAndOneAlert ==
    (Fetched /\ PrimaryThrows(fn_in.page)) =>
        /\ fn_out.alert_calls = 1
        /\ fn_out.primary_raised
        /\ fn_in.fb = "ok" =>
             /\ ~fn_out.raised
             /\ fn_out.via = "fallback"
             /\ fn_out.record = FallbackEntry
        /\ fn_out.raised => fn_in.fb # "ok"

C8_Witness ==
    /\ Fetched
    /\ PrimaryThrows(fn_in.page)
    /\ fn_in.mail = "smtp_fails"
    /\ fn_out.smtp_tried
    /\ ~fn_out.raised
    /\ fn_out.record = FallbackEntry

(***************************************************************************)
(* cleanup on its own: called on every state of temp/ and of the export.   *)
(***************************************************************************)
CleanupSizes == { 0, 500000, 1048575, 1048576, 1048577 }

CleanupExports ==
    { Absent } \cup
    { [ kind |-> "video", run |-> 1, doc |-> 1, size |-> n ] :
        n \in CleanupSizes }

CleanupTemps ==
    { [ dir |-> FALSE, audio |-> Absent, clip |-> Absent ] } \cup
    [ dir : { TRUE },
      audio : { Absent, [ kind |-> "audio", empty |-> FALSE ],
                [ kind |-> "audio", empty |-> TRUE ] },
      clip : { Absent, [ kind |-> "clip", doc |-> 1, whole |-> TRUE ],
               [ kind |-> "clip", doc |-> 1, whole |-> FALSE ] } ]

InitCleanup ==
    /\ bridge = [ kind |-> "doc", doc |-> GoodDoc, phonetic |-> "ph",
                  run |-> 1 ]
    /\ \E t \in CleanupTemps :
         temp_dir = t.dir /\ audio = t.audio /\ clip = t.clip
    /\ export \in CleanupExports
    /\ archive = [ d \in Dates |-> Absent ]
    /\ handover = <<>>
    /\ g_pc = "cleanup"
    /\ g_test \in BOOLEAN
    /\ g_run = 1
    /\ g_word_data = NoValue
    /\ g_script = NoValue
    /\ g_calls = <<>>
    /\ a_pc = "idle"
    /\ a_run = 0
    /\ a_video = Absent
    /\ a_input = <<>>
    /\ a_caption = NoValue
    /\ a_results = NoResults
    /\ a_success = "unset"
    /\ a_calls = <<>>
    /\ fn_in = NoValue
    /\ fn_out = NoValue

SpecCleanup == InitCleanup /\ [][GenCleanup]_vars

InCalls(calls, step) == \E i \in 1..Len(calls) : calls[i] = step

IsPrefix(s, t) == Len(s) <= Len(t) /\ SubSeq(t, 1, Len(s)) = s

Booleans == { "True", "False" }

\* C3: distribute returns success if and only if at least one adapter
\* returned true (a skipped platform returns False), main goes on to the
\* archive exactly then, and swapping the two platforms' results does not
\* change the answer.
C3_SuccessIffAnyAdapterTrue ==
    /\ a_pc \in { "archive", "failed" } =>
         /\ a_results.tiktok \in Booleans
         /\ a_results.instagram \in Booleans
         /\ (a_success = "True") <=>
              (a_results.tiktok = "True" \/ a_results.instagram = "True")
         /\ (a_pc = "archive") <=> (a_success = "True")
    /\ \A t \in Booleans, i \in Booleans :
         distribute([ tiktok |-> t, instagram |-> i ])
           = distribute([ tiktok |-> i, instagram |-> t ])

C3_Witness ==
    /\ a_pc = "archive"
    /\ a_results = [ tiktok |-> "False", instagram |-> "True" ]
    /\ a_success = "True"

\* C4: once the first platform's upload has been attempted, the second
\* platform's upload is attempted too and distribute returns a boolean,
\* whatever way the first one failed.
C4_EveryPlatformAttempted ==
    (AppEnded /\ InCalls(a_calls, "tiktok")) =>
        /\ InCalls(a_calls, "instagram")
        /\ a_success \in Booleans

\* C5: when every platform failed or was skipped the run ends without
\* archive_video, cleanup_temp or finalize_handover, and the export, the
\* archive, the log and temp/ are as they were; the archive is only ever
\* called after a successful result.
C5_ArchiveOnlyAfterSuccess ==
    /\ [](a_success = "False" =>
            /\ a_pc = "failed"
            /\ ~InCalls(a_calls, "archive")
            /\ ~InCalls(a_calls, "cleanup_temp")
            /\ ~InCalls(a_calls, "finalize")
            /\ export.kind = "video")
    /\ []((InCalls(a_calls, "archive") \/ a_pc = "archive") =>
            a_success = "True")
    /\ [][ (a_pc' = "failed" \/ a_pc = "failed") =>
             UNCHANGED <<fs_vars, store_vars>> ]_vars

C5_Witness ==
    /\ a_pc = "failed"
    /\ a_success = "False"
    /\ a_results = [ tiktok |-> "False", instagram |-> "False" ]
    /\ export.kind = "video"
    /\ a_video = export

TestStages == <<"load", "check_audio", "render", "mux", "cleanup">>

NormalStages ==
    <<"fetch", "script", "write", "audio", "render", "mux", "cleanup">>

\* C7: in test mode the acquisition, the script backend and the TTS are
\* never called; a missing checkpoint or a missing cached audio ends the
\* run with an error at the check, with every file as it was, and the
\* render starts only after both were found.
C7_TestModeFailsFast ==
    /\ [](g_test =>
            /\ ~InCalls(g_calls, "fetch")
            /\ ~InCalls(g_calls, "script")
            /\ ~InCalls(g_calls, "write")
            /\ ~InCalls(g_calls, "audio")
            /\ IsPrefix(g_calls, TestStages))
    /\ [][ (g_test /\ g_pc = "load" /\ bridge = Absent /\ g_pc' # g_pc) =>
             (g_pc' = "aborted" /\ UNCHANGED <<fs_vars, store_vars>>) ]_vars
    /\ [][ (g_test /\ g_pc = "check_audio" /\ audio = Absent
              /\ g_pc' # g_pc) =>
             (g_pc' = "aborted" /\ UNCHANGED <<fs_vars, store_vars>>) ]_vars
    /\ [][ (g_test /\ g_pc # "render" /\ g_pc' = "render") =>
             (bridge # Absent /\ audio # Absent) ]_vars

C7_Witness ==
    /\ g_test
    /\ g_pc = "aborted"
    /\ g_calls = <<"load", "check_audio">>
    /\ bridge # Absent
    /\ audio = Absent

\* C9: the gate lets the run go on only on y and ends it only on n: while
\* it prompts nothing has been uploaded, archived or logged by the run; n
\* appends exactly one rejection entry and the run ends with nothing else
\* changed; any other line changes nothing but the line read.
C9_GateAcceptsOnlyYesOrNo ==
    /\ [](a_pc \in { "prompt", "rejected" } => a_calls = <<"find", "open">>)
    /\ [][ (a_pc = "prompt" /\ a_pc' # "prompt") =>
             \/ /\ Choice(a_input') = <<"y">>
                /\ a_pc' = "caption"
                /\ UNCHANGED <<fs_vars, store_vars, a_calls>>
             \/ /\ Choice(a_input') = <<"n">>
                /\ a_pc' = "rejected"
                /\ handover' = Append(handover, [ kind |-> "rejected" ])
                /\ UNCHANGED <<fs_vars, archive, a_calls>> ]_vars
    /\ [][ (a_pc = "prompt" /\ a_pc' = "prompt" /\ a_input' # a_input) =>
             /\ Choice(a_input') \notin { <<"y">>, <<"n">> }
             /\ UNCHANGED <<fs_vars, store_vars, a_calls, a_video,
                            a_caption, a_results, a_success>> ]_vars
    /\ [][ a_pc = "rejected" =>
             (a_pc' = "idle" /\ UNCHANGED <<fs_vars, store_vars>>) ]_vars

C9_Witness ==
    /\ a_pc = "rejected"
    /\ a_input = <<"N">>
    /\ handover = << [ kind |-> "rejected" ] >>
    /\ export.kind = "video"

\* C10: a stage that fails ends the generation run there: the stages run
\* in order with none skipped, an aborted run has not called cleanup and
\* takes no further step but its exit, and the failing stage leaves the
\* artifacts of the stages before it (checkpoint, audio, clip) and temp/
\* in place.
C10_FatalErrorAbortsAndKeepsArtifacts ==
    /\ [](IsPrefix(g_calls, IF g_test THEN TestStages ELSE NormalStages))
    /\ [](g_pc = "aborted" => ~InCalls(g_calls, "cleanup"))
    /\ [][ g_pc = "aborted" =>
             (g_pc' = "idle" /\ UNCHANGED <<fs_vars, store_vars>>) ]_vars
    /\ [][ (g_pc # "aborted" /\ g_pc' = "aborted") =>
             /\ g_calls' = Append(g_calls, g_pc)
             /\ UNCHANGED bridge
             /\ temp_dir => temp_dir'
             /\ g_pc # "audio" => UNCHANGED audio
             /\ g_pc # "render" => UNCHANGED clip
             /\ g_pc # "mux" => UNCHANGED export ]_vars

C10_Witness ==
    /\ g_pc = "aborted"
    /\ ~g_test
    /\ g_calls = <<"fetch", "script", "write", "audio", "render", "mux">>
    /\ bridge.kind = "doc"
    /\ audio.kind = "audio"
    /\ clip.kind = "clip"
    /\ temp_dir

\* C11: generate_audio raises when the TTS backend is unreachable, when
\* the key is missing, and when the backend returns zero bytes: the run
\* goes from the audio stage to the render only with a non-empty audio
\* file.  The code prints the size of the file and does not test it.
C11_AudioStageFailsOnEmptyAudio ==
    [][ (g_pc = "audio" /\ g_pc' = "render") =>
          (audio'.kind = "audio" /\ ~audio'.empty) ]_vars

(***************************************************************************)
(* Exit codes.  Neither main catches anything: a run that ends in an       *)
(* uncaught exception ends the interpreter with status 1, a main that      *)
(* returns ends it with 0, and sys.exit(n) ends it with n.  A process     *)
(* that has not ended has the code -1 here.                                *)
(***************************************************************************)
\* An approval run that reports success whatever happened.
ExitCode_approve_zero(pc) ==
    IF pc \in { "done", "rejected", "failed", "crashed" } THEN 0 ELSE -1

\* python main.py
ExitCode_main(pc) ==
    CASE pc = "done" -> 0
      [] pc = "aborted" -> 1
      [] OTHER -> -1

\* python approve.py: sys.exit(0) on n, sys.exit(1) when no upload
\* succeeded.
ExitCode_approve(pc) ==
    CASE pc = "done" -> 0
      [] pc = "rejected" -> 0
      [] pc = "failed" -> 1
      [] pc = "crashed" -> 1
      [] OTHER -> -1

\* C12: both entry points exit 0 on full success and approve.py exits 0
\* on a rejection; the exit is not 0 when every upload failed or was
\* skipped, and when a stage ended in an error.
C12_ExitCodes ==
    /\ (g_pc = "done" /\ g_calls = (IF g_test THEN TestStages ELSE NormalStages))
          => ExitCode_main(g_pc) = 0
    /\ (g_pc = "aborted") => ExitCode_main(g_pc) \notin { 0, -1 }
    /\ (a_pc = "done" /\ InCalls(a_calls, "finalize"))
          => ExitCode_approve(a_pc) = 0
    /\ (a_pc = "rejected") => ExitCode_approve(a_pc) = 0
    /\ (a_success = "False") => ExitCode_approve(a_pc) \notin { 0, -1 }
    /\ (a_pc = "crashed") => ExitCode_approve(a_pc) \notin { 0, -1 }
    /\ (a_pc \in { "archive", "cleanup_temp", "finalize" })
          => a_success = "True"

C12_Witness ==
    /\ a_pc = "failed"
    /\ a_success = "False"
    /\ ExitCode_approve(a_pc) = 1
    /\ handover = <<>>

\* A strategy yields a record that can win: a non-empty term and at least
\* one definition.
Qualifies(page) ==
    /\ Strip(page.headword) # <<>>
    /\ Len(ScrapedDefinitions(page)) >= 1

JsonYields(page) == page.nav /\ page.json = "ok" /\ Qualifies(page)

DomYields(page) == page.nav /\ page.dom_el /\ Qualifies(page)

\* C13: the embedded-JSON strategy is tried first and the DOM strategy
\* second; the record returned from the primary path is that of the first
\* strategy yielding a non-empty term and at least one definition, and
\* the DOM strategy is tried whenever the JSON strategy yields no such
\* record.
C13_FirstQualifyingStrategyWins ==
    Fetched =>
        /\ fn_out.via = "json" => JsonYields(fn_in.page)
        /\ fn_out.via = "dom" =>
             (~JsonYields(fn_in.page) /\ DomYields(fn_in.page))
        /\ JsonYields(fn_in.page) => fn_out.via = "json"
        /\ (~JsonYields(fn_in.page) /\ DomYields(fn_in.page)) =>
             fn_out.via = "dom"

(***************************************************************************)
(* render_comfyui on its own: the submission, the polling loop (one step   *)
(* per iteration) and the download.  fn_out holds the function's locals.   *)
(***************************************************************************)
poll_interval == 10
max_wait == 1800

SubmitOutcomes == { "no_workflow", "submit_fails", "no_prompt_id", "queued" }

\* What GET /history/<prompt_id> gives at one poll: the request fails,
\* the job is not in the history yet, the job reports an error, the job
\* has no output video yet, or it reports one.
PollAnswers == { "network_error", "absent", "error", "running", "done" }

DownloadOutcomes == { "download_fails", "ok" }

\* A loop that polls once more at the limit.
LoopGuard_inclusive(elapsed) == elapsed <= max_wait

\* Line 331: while elapsed < max_wait
LoopGuard(elapsed) == elapsed < max_wait

RenderLocals(pc, elapsed, polls, output_filename, last) ==
    [ pc |-> pc, elapsed |-> elapsed, polls |-> polls,
      output_filename |-> output_filename, last |-> last ]

InitRender ==
    /\ bridge = [ kind |-> "doc", doc |-> GoodDoc, phonetic |-> "ph",
                  run |-> 1 ]
    /\ temp_dir = TRUE
    /\ audio = [ kind |-> "audio", empty |-> FALSE ]
    /\ clip \in { Absent, [ kind |-> "clip", doc |-> 0, whole |-> TRUE ] }
    /\ export = Absent
    /\ archive = [ d \in Dates |-> Absent ]
    /\ handover = <<>>
    /\ g_pc = "render"
    /\ g_test \in BOOLEAN
    /\ g_run = 1
    /\ g_word_data = NoValue
    /\ g_script = NoValue
    /\ g_calls = <<>>
    /\ a_pc = "idle"
    /\ a_run = 0
    /\ a_video = Absent
    /\ a_input = <<>>
    /\ a_caption = NoValue
    /\ a_results = NoResults
    /\ a_success = "unset"
    /\ a_calls = <<>>
    /\ \E s \in SubmitOutcomes :
         fn_in = [ fn |-> "render_comfyui", submit |-> s ]
    /\ fn_out = RenderLocals("start", 0, 0, "None", "none")

render_frame == <<bridge, audio, export, store_vars, gen_vars, app_vars, fn_in>>

\* Lines 287-328: the workflow is read and submitted; the locals of the
\* loop are set.
RenderSubmit ==
    /\ fn_out.pc = "start"
    /\ fn_out' = [fn_out EXCEPT
                    !.pc = IF fn_in.submit = "queued" THEN "poll" ELSE "raised"]
    /\ UNCHANGED <<temp_dir, clip, render_frame>>

\* Lines 331-361: one iteration of the loop.
RenderPoll ==
    /\ fn_out.pc = "poll"
    /\ LoopGuard(fn_out.elapsed)
    /\ \E ans \in PollAnswers :
         fn_out' = RenderLocals(
             CASE ans \in { "network_error", "error" } -> "raised"
               [] ans = "done" -> "after"
               [] OTHER -> "poll",
             fn_out.elapsed + poll_interval,
             fn_out.polls + 1,
             IF ans = "done" THEN "clip.mp4" ELSE fn_out.output_filename,
             ans)
    /\ UNCHANGED <<temp_dir, clip, render_frame>>

\* Line 331: the condition of the loop is false.
RenderLoopEnd ==
    /\ fn_out.pc = "poll"
    /\ ~LoopGuard(fn_out.elapsed)
    /\ fn_out' = [fn_out EXCEPT !.pc = "after"]
    /\ UNCHANGED <<temp_dir, clip, render_frame>>

\* Lines 363-378: no output is an error; else temp/ is made and the clip
\* downloaded to temp/comfyui_raw.mp4.
RenderDownload ==
    /\ fn_out.pc = "after"
    /\ IF fn_out.output_filename = "None"
       THEN /\ fn_out' = [fn_out EXCEPT !.pc = "raised"]
            /\ UNCHANGED <<temp_dir, clip>>
       ELSE \E d \in DownloadOutcomes :
              /\ temp_dir' = TRUE
              /\ clip' = [ kind |-> "clip", doc |-> bridge.run,
                           whole |-> (d = "ok") ]
              /\ fn_out' = [fn_out EXCEPT
                              !.pc = IF d = "ok" THEN "returned" ELSE "raised"]
    /\ UNCHANGED render_frame

NextRender ==
    \/ RenderSubmit
    \/ RenderPoll
    \/ RenderLoopEnd
    \/ RenderDownload

\* The interpreter keeps running the function up to the end of the loop:
\* sleep returns and the requests before the download have a timeout
\* (lines 317, 335).  urlretrieve has none.
SpecRender ==
    /\ InitRender
    /\ [][NextRender]_vars
    /\ WF_vars(RenderSubmit \/ RenderPoll \/ RenderLoopEnd)

LoopLeft == fn_out.pc \in { "after", "raised", "returned" }

\* C14: render_comfyui polls every 10 seconds for at most 1800 seconds,
\* so at most 180 times, and the loop always ends; it raises when the job reports
\* an error and when no output video was reported within the limit; it
\* downloads the clip only after a poll reported an output video.
C14_PollingBoundedAndTerminates ==
    /\ [](/\ fn_out.polls <= 180
          /\ fn_out.elapsed = 10 * fn_out.polls
          /\ fn_out.elapsed <= 1800)
    /\ [](fn_out.last = "error" => fn_out.pc = "raised")
    /\ []((fn_out.pc = "after" /\ fn_out.output_filename = "None") =>
            fn_out.polls = 180)
    /\ [][ (fn_out.pc = "after" /\ fn_out.output_filename = "None") =>
             (fn_out'.pc = "raised" /\ UNCHANGED <<temp_dir, clip>>) ]_vars
    /\ [][ clip' # clip =>
             (fn_out.output_filename # "None" /\ fn_out.last = "done") ]_vars
    /\ [](fn_out.pc = "returned" =>
            (clip.kind = "clip" /\ clip.doc = bridge.run /\ clip.whole))
    /\ <>LoopLeft

C14_Witness ==
    /\ fn_out.pc = "raised"
    /\ fn_out.polls = 180
    /\ fn_out.output_filename = "None"
    /\ fn_out.last = "running"

\* C15: an archived artifact is never changed or removed: whatever runs
\* complete afterwards, also on the same date, a file of the permanent
\* archive stays as it is.  archive_video moves every export to
\* permanent_archive/<date>/word_of_the_day.mp4.
C15_ArchivedArtifactsKept ==
    [][ \A d \in Dates : archive[d] # Absent => archive'[d] = archive[d] ]_vars

Completed == [ kind |-> "completed" ]

CountOf(entries, e) == Cardinality({ i \in 1..Len(entries) : entries[i] = e })

\* C16: on success archive_video moves the export under the directory of
\* the date (it is gone from exports/ and is the file in the archive) and
\* only then finalize_handover appends the completion entry, exactly one
\* for the run; no completion entry is appended for a run whose move did
\* not happen.
C16_MoveThenCompletionEntry ==
    /\ [][ (a_pc = "archive" /\ a_pc' = "cleanup_temp") =>
             /\ export # Absent
             /\ export' = Absent
             /\ \E d \in Dates :
                  /\ archive'[d] = export
                  /\ \A o \in Dates \ { d } : archive'[o] = archive[o]
             /\ UNCHANGED handover ]_vars
    /\ [][ CountOf(handover', Completed) # CountOf(handover, Completed) =>
             /\ a_pc = "finalize"
             /\ a_pc' = "done"
             /\ InCalls(a_calls, "archive")
             /\ a_success = "True"
             /\ handover' = Append(handover, Completed)
             /\ UNCHANGED <<fs_vars, archive>> ]_vars
    /\ [](a_pc = "done" =>
            /\ a_calls = <<"find", "open", "caption", "tiktok", "instagram",
                           "archive", "cleanup_temp", "finalize">>
            /\ handover # <<>>
            /\ handover[Len(handover)] = Completed
            /\ \E d \in Dates : archive[d] # Absent)
    /\ [](a_pc \in { "crashed", "failed", "rejected" } =>
            ~InCalls(a_calls, "finalize"))
    /\ [](CountOf(handover, Completed) <= a_run)

C16_Witness ==
    /\ a_pc = "done"
    /\ export = Absent
    /\ archive["day2"].kind = "video"
    /\ archive["day1"] = Absent
    /\ handover = << Completed >>

(***************************************************************************)
(* merge_video on its own: the duration ffmpeg gives the export, from the  *)
(* options of the command line (lines 387-400), in whole seconds.          *)
(***************************************************************************)
MaxDuration == 14

Finite(secs) == [ inf |-> FALSE, secs |-> secs ]

\* -stream_loop n on an input: n more passes, without end for -1.
stream_loop(count, s) ==
    IF count = -1
    THEN [ inf |-> TRUE, secs |-> 0 ]
    ELSE [ inf |-> FALSE, secs |-> s.secs * (count + 1) ]

\* -shortest: the output ends with its shortest stream.
shortest(v, a) ==
    IF v.inf THEN a
    ELSE IF a.inf THEN v
    ELSE IF v.secs <= a.secs THEN v ELSE a

\* The command without a looped clip.
merge_video_unlooped(clip_secs, audio_secs) ==
    shortest(stream_loop(0, Finite(clip_secs)), Finite(audio_secs)).secs

\* ffmpeg -stream_loop -1 -i clip -i audio ... -shortest export
merge_video(clip_secs, audio_secs) ==
    shortest(stream_loop(-1, Finite(clip_secs)), Finite(audio_secs)).secs

MuxCall ==
    /\ fn_in = NoValue
    /\ \E c \in 1..MaxDuration, a \in 1..MaxDuration :
         /\ fn_in' = [ fn |-> "merge_video", clip |-> c, audio |-> a ]
         /\ fn_out' = [ duration |-> merge_video(c, a) ]
    /\ UNCHANGED <<fs_vars, store_vars, gen_vars, app_vars>>

SpecMux == Init /\ [][MuxCall]_vars

\* C17: when the clip is shorter than the audio the export lasts as long
\* as the audio: the clip is looped without end and the output is cut at
\* the end of the audio (a 3-second clip and 14 seconds of audio give 14
\* seconds).
C17_LoopedOutputLastsAsAudio ==
    (fn_in # NoValue /\ fn_in.clip < fn_in.audio) =>
        fn_out.duration = fn_in.audio

C17_Witness ==
    /\ fn_in # NoValue
    /\ fn_in.clip = 3
    /\ fn_in.audio = 14
    /\ fn_out.duration = 14

\* C18: a non-zero exit status of the backend and a failed validation
\* make generate_script raise; the run then ends at once, the backend
\* having been called once, and data_bridge.json is as it was before the
\* run: the file changes only at the write that follows a validated
\* script.
C18_ScriptFailureLeavesCheckpoint ==
    /\ \A out \in BackendOutputs :
         (out.returncode # 0 \/ ~Validate(out.doc)) =>
             generate_script(out).raised
    /\ [][ (g_pc = "script" /\ g_pc' # g_pc) =>
             /\ UNCHANGED <<fs_vars, store_vars>>
             /\ \/ g_pc' = "aborted" /\ g_script' = g_script
                \/ g_pc' = "write" /\ Validate(g_script') ]_vars
    /\ [](CountOf(g_calls, "script") <= 1)
    /\ [][ bridge' # bridge =>
             /\ g_pc = "write"
             /\ g_calls = <<"fetch", "script">>
             /\ Validate(g_script) ]_vars
    /\ []((g_pc = "aborted" /\ InCalls(g_calls, "script")
             /\ ~InCalls(g_calls, "write")) =>
            g_calls = <<"fetch", "script">>)

C18_Witness ==
    /\ g_pc = "aborted"
    /\ g_calls = <<"fetch", "script">>
    /\ g_run = 2
    /\ bridge.kind = "doc"
    /\ bridge.run = 1

(***************************************************************************)
(* distribute on its own: one call with every setting of the credentials   *)
(* and every answer of the two platforms.  fn_out holds what each adapter  *)
(* did.                                                                    *)
(***************************************************************************)
DistributeCall ==
    /\ fn_in = NoValue
    /\ \E token \in Credentials, t \in TikTokOutcomes,
          username \in Credentials, password \in Credentials,
          i \in InstagramOutcomes :
         /\ fn_in' = [ fn |-> "distribute", token |-> token, tiktok |-> t,
                       username |-> username, password |-> password,
                       instagram |-> i ]
         /\ fn_out' =
              [ tiktok |-> upload_tiktok(token, t),
                instagram |->
                    IF upload_tiktok(token, t) = "raised"
                    THEN "not_called"
                    ELSE upload_instagram(username, password, i) ]
    /\ UNCHANGED <<fs_vars, store_vars, gen_vars, app_vars>>

SpecDistribute == Init /\ [][DistributeCall]_vars

\* C19: an adapter called with a credential that is unset or is the
\* "your_..." template value skips: it returns False without a login or
\* an upload, whichever of its credentials that is.  upload_instagram
\* tests the password only for being set.
C19_AdaptersSkipWithoutCredentials ==
    fn_in # NoValue =>
        /\ fn_in.token # "real" => fn_out.tiktok = "skip"
        /\ ((fn_in.username # "real" \/ fn_in.password # "real")
              /\ fn_out.instagram # "not_called") =>
             fn_out.instagram = "skip"

StageAfter(stage) ==
    CASE stage = "fetch" -> "script"
      [] stage = "script" -> "write"
      [] stage = "write" -> "audio"
      [] stage = "audio" -> "render"
      [] stage = "render" -> "mux"
      [] stage = "mux" -> "cleanup"
      [] stage = "cleanup" -> "done"

Stages == { NormalStages[k] : k \in 1..Len(NormalStages) }

\* C20: a normal run takes its stages in the order fetch, script, write,
\* audio, render, mux, cleanup, one at a time: from a stage the run goes
\* to the next stage, when the stage returned, or ends; and the
\* checkpoint read by the audio and the render stages is the one this
\* run has written.
C20_StagesInOrder ==
    /\ [](~g_test => IsPrefix(g_calls, NormalStages))
    /\ []((~g_test /\ g_pc \in Stages) =>
            g_calls = SubSeq(NormalStages, 1, Len(g_calls))
            /\ NormalStages[Len(g_calls) + 1] = g_pc)
    /\ [][ (~g_test /\ g_pc \in Stages /\ g_pc' # g_pc) =>
             /\ g_pc' \in { StageAfter(g_pc), "aborted" }
             /\ g_calls' = Append(g_calls, g_pc) ]_vars
    /\ []((~g_test /\ g_pc \in { "audio", "render" }) =>
            (bridge.kind = "doc" /\ bridge.run = g_run))
    /\ [][ (~g_test /\ g_pc = "render" /\ g_pc' = "mux") =>
             (clip'.kind = "clip" /\ clip'.doc = g_run /\ clip'.whole) ]_vars

C20_Witness ==
    /\ ~g_test
    /\ g_pc = "done"
    /\ g_calls = NormalStages
    /\ export.kind = "video"
    /\ export.run = g_run
    /\ export.doc = g_run

\* C21: the caption an approval run builds comes from the document that
\* produced the video it found: the checkpoint it reads belongs to the
\* generation run of that video.  The checkpoint is rewritten by every
\* normal run, the export only by a run that reaches the mux.
C21_CaptionOfTheVideoFound ==
    a_caption # NoValue => a_caption.doc = a_video.doc

C21_Witness ==
    /\ a_pc = "tiktok"
    /\ a_caption # NoValue
    /\ a_caption.doc = 2
    /\ a_video.doc = 1
    /\ g_pc = "idle"
    /\ g_run = 2

\* C22: what is uploaded and what is moved to the archive is the video
\* that was opened for review, also when a generation run writes the
\* export while the gate waits or between the approval and the upload.
\* The approval run keeps the path of the export, not its content.
C22_ApprovedArtifactIsDistributed ==
    /\ [][ (a_pc \in { "tiktok", "instagram" } /\ a_pc' # a_pc) =>
             export = a_video ]_vars
    /\ [][ (a_pc = "archive" /\ a_pc' = "cleanup_temp") =>
             \E d \in Dates : archive'[d] = a_video ]_vars

C22_Witness ==
    /\ a_pc = "cleanup_temp"
    /\ a_video.run = 1
    /\ \E d \in Dates : archive[d] # Absent /\ archive[d].run = 2
    /\ \A d \in Dates : archive[d] # a_video

\* C23: a run in test mode never writes data_bridge.json or
\* temp/audio.mp3: each of its steps, render and mux included, whether
\* they succeed or fail, leaves the checkpoint as it was, and leaves the
\* audio file as it was unless the step is the cleanup removing temp/
\* after a verified export.
C23_TestModeWritesNoCachedArtifact ==
    [][ (g_test /\ g_pc' # g_pc) =>
          /\ UNCHANGED bridge
          /\ \/ UNCHANGED audio
             \/ /\ g_pc = "cleanup"
                /\ export.kind = "video"
                /\ export.size >= CleanupThreshold
                /\ audio' = Absent
                /\ ~temp_dir' ]_vars

C23_Witness ==
    /\ g_test
    /\ g_pc = "done"
    /\ g_calls = TestStages
    /\ g_run = 2
    /\ bridge.kind = "doc"
    /\ bridge.run = 1
    /\ export.kind = "video"
    /\ export.run = 2
    /\ export.size >= CleanupThreshold
    /\ audio = Absent

=============================================================================
